---- MODULE Spec2Model ----
(***************************************************************************)
(* ProcessInput (src/lib/ProcessInput.js): the read side of a NoFlo        *)
(* component.  One ProcessInput exists per invocation (ProcessContext);    *)
(* it answers the preconditions has / hasData / hasStream and reads with   *)
(* get / getData / getStream.  The port buffers, the node's bracket        *)
(* contexts and the invocation result are the state it works on.           *)
(***************************************************************************)
EXTENDS Integers, Sequences, FiniteSets, TLC

\* Longest buffer an initial state gives the partition under study.
MaxLen == 5

\* Longest buffer an initial state gives any other partition.
MaxSide == 2

\* Longest buffer an initial state gives a partition that preconditions scan.
MaxScan == 4

\* Longest buffer an initial state gives each of two partitions used together.
MaxPair == 1

\* Longest buffer an initial state gives the forwarding port that a chain of
\* invocations reads.
MaxChain == 4

\* Most invocations that fire in a chain.
MaxFirings == 2

\* Longest buffer an initial state gives each scope's partition of one port.
MaxShared == 2

-----------------------------------------------------------------------------
\* The node: three inports.  "in" is a plain port, "fwd" is a plain port
\* listed in forwardBrackets, "arr" is addressable with two indexes.

Scopes == {"s1", "s2"}

PortNames == {"in", "fwd", "arr"}

\* An idx that was never assigned (`let idx;`).
NoIdx == -1

Indexes == {0, 1}

isAddressable(port) == port = "arr"

isForwardingInport(port) == port = "fwd"

IdxOf(port) == IF isAddressable(port) THEN Indexes ELSE {NoIdx}

\* One buffer per (port, scope, index).
Parts == UNION {{<<p, s, i>> : s \in Scopes, i \in IdxOf(p)} : p \in PortNames}

-----------------------------------------------------------------------------
\* Information packets.  `data` is the payload of a data IP and the label of
\* a bracket IP.

IPTypes == {"data", "openBracket", "closeBracket"}

IP(type, data) == [type |-> type, data |-> data]

\* No packet: the undefined of an empty buffer, the null of __getForForwarding.
Absent == [type |-> "absent", data |-> 0]

\* The payload getData pushes for a port that gave no packet.
NoData == 0

\* A port reference as a caller writes it: the string "p" or the array ["p", idx].
Name(p) == [array |-> FALSE, name |-> p, idx |-> NoIdx]

Pair(p, i) == [array |-> TRUE, name |-> p, idx |-> i]

\* A reference whose form matches its port, and the buffer it then reads from.
ValidRef(p) == p.name \in PortNames /\ p.array = isAddressable(p.name)

BufferOf(bufs, scope, p) == bufs[<<p.name, scope, p.idx>>]

-----------------------------------------------------------------------------
\* The state the operations work on, as one record m:
\*   buffers         port buffers, by <<port, scope, idx>>
\*   bracketContext  nodeInstance.bracketContext.in, stacks of frame references
\*   heap            the bracket context objects {ip, ports, source, closeIp}
\*   result          context.result of each invocation (one per scope)
\*   activated       context.activated of each invocation
\*   load            nodeInstance.load
\*   ordered         nodeInstance.isOrdered()
\*   portReads       how many times the current call has called a port's get

\* `LET r == v IN K(r)`, with v written once.
Then(v, K(_)) == K(v)

\* InPort.get(scope, idx): the head of the partition's buffer, removed.
PortGet(m, port, scope, idx) ==
  LET key == <<port, scope, idx>>
      buf == m.buffers[key]
  IN  IF buf = <<>>
      THEN [m |-> [m EXCEPT !.portReads = @ + 1], ip |-> Absent]
      ELSE [m |-> [m EXCEPT !.buffers[key] = Tail(buf), !.portReads = @ + 1],
            ip |-> Head(buf)]

\* nodeInstance.getBracketContext('in', port, scope, idx): the key of the stack.
getBracketContext(port, scope, idx) == <<port, scope, idx>>

\* nodeInstance.activate(context).
NodeActivate(m, scope) ==
  [m EXCEPT !.activated[scope] = TRUE, !.load = @ + 1]

\* activate with the `if (this.context.activated) return` guard lost.
activateAlways(m, scope) ==
  NodeActivate(IF m.ordered
               THEN [m EXCEPT !.result[scope].resolved = "false"]
               ELSE m, scope)

activate(m, scope) ==
  IF m.activated[scope]
  THEN m
  ELSE LET m1 == IF m.ordered
                 THEN [m EXCEPT !.result[scope].resolved = "false"]
                 ELSE m
       IN  NodeActivate(m1, scope)

-----------------------------------------------------------------------------
\* __getForForwarding, first loop: read IPs until a data IP or the end of the
\* buffer; the brackets read on the way are the prefix.
RECURSIVE ReadPrefix(_, _, _, _, _)
ReadPrefix(m, port, scope, idx, prefix) ==
  Then(PortGet(m, port, scope, idx), LAMBDA r :
    IF r.ip = Absent
    THEN [m |-> r.m, prefix |-> prefix, dataIp |-> Absent]
    ELSE IF r.ip.type = "data"
    THEN [m |-> r.m, prefix |-> prefix, dataIp |-> r.ip]
    ELSE ReadPrefix(r.m, port, scope, idx, Append(prefix, r.ip)))

\* __getForForwarding, second loop: a closeBracket pops the bracket context and
\* goes to result.__bracketClosingBefore, an openBracket pushes a new context.
\* Popping an empty stack gives undefined, and `context.closeIp = ip` throws.
RECURSIVE ApplyPrefix(_, _, _, _, _, _)
ApplyPrefix(m, port, scope, idx, prefix, i) ==
  IF i > Len(prefix)
  THEN [m |-> m, status |-> "ok"]
  ELSE
    LET ip    == prefix[i]
        key   == getBracketContext(port, scope, idx)
        stack == m.bracketContext[key]
    IN  IF ip.type = "closeBracket"
        THEN LET m1 == IF m.result[scope].bracketClosingBefore.defined
                       THEN m
                       ELSE [m EXCEPT !.result[scope].bracketClosingBefore =
                                         [defined |-> TRUE, frames |-> <<>>]]
             IN  IF stack = <<>>
                 THEN [m |-> m1, status |-> "TypeError"]
                 ELSE LET f  == stack[Len(stack)]
                          m2 == [m1 EXCEPT
                                   !.bracketContext[key] = SubSeq(stack, 1, Len(stack) - 1),
                                   !.heap[f].closeIp = ip,
                                   !.result[scope].bracketClosingBefore.frames = Append(@, f)]
                      IN  ApplyPrefix(m2, port, scope, idx, prefix, i + 1)
        ELSE IF ip.type = "openBracket"
        THEN LET f  == Len(m.heap) + 1
                 m1 == [m EXCEPT
                          !.heap = Append(@, [ip |-> ip, ports |-> <<>>,
                                              source |-> port, closeIp |-> Absent]),
                          !.bracketContext[key] = Append(stack, f)]
             IN  ApplyPrefix(m1, port, scope, idx, prefix, i + 1)
        ELSE ApplyPrefix(m, port, scope, idx, prefix, i + 1)

\* SnapshotContext with the assignment to result.__bracketContext[port] lost.
SnapshotContextDropped(m, port, scope, idx) == m

\* result.__bracketContext[port] = the stack's slice(0): a new array of the
\* same context objects.
SnapshotContext(m, port, scope, idx) ==
  [m EXCEPT !.result[scope].bracketContext[port] =
     [defined |-> TRUE, frames |-> m.bracketContext[getBracketContext(port, scope, idx)]]]

\* getForForwarding with the failure of the prefix loop swallowed: a
\* closeBracket that finds no bracket context is skipped.
getForForwardingSwallows(m, scope, port, idx) ==
  Then(ReadPrefix(m, port, scope, idx, <<>>), LAMBDA r :
    Then(ApplyPrefix(r.m, port, scope, idx, r.prefix, 1), LAMBDA a :
      [m |-> SnapshotContext(a.m, port, scope, idx),
       status |-> "ok", value |-> r.dataIp]))

getForForwarding(m, scope, port, idx) ==
  Then(ReadPrefix(m, port, scope, idx, <<>>), LAMBDA r :
    Then(ApplyPrefix(r.m, port, scope, idx, r.prefix, 1), LAMBDA a :
      IF a.status # "ok"
      THEN [m |-> a.m, status |-> a.status, value |-> Absent]
      ELSE [m |-> SnapshotContext(a.m, port, scope, idx),
            status |-> "ok", value |-> r.dataIp]))

-----------------------------------------------------------------------------
\* get(...params): activate, then one packet per requested port.

DefaultArgs(args) == IF args = <<>> THEN <<Name("in")>> ELSE args

RECURSIVE getLoop(_, _, _, _, _)

\* getLoop with the isForwardingInport test lost: every port is read as a
\* forwarding port.
getLoopAlwaysForwarding(m, scope, args, i, res) ==
  IF i > Len(args)
  THEN [m |-> m, status |-> "ok",
        value |-> IF Len(args) = 1 THEN res[1] ELSE res]
  ELSE IF ~ValidRef(args[i])
  THEN [m |-> m, status |-> "AddressabilityMismatch", value |-> Absent]
  ELSE Then(getForForwarding(m, scope, args[i].name, args[i].idx), LAMBDA r :
         IF r.status # "ok"
         THEN [m |-> r.m, status |-> r.status, value |-> Absent]
         ELSE getLoop(r.m, scope, args, i + 1, Append(res, r.value)))

\* getLoop with the scope of the plain dequeue lost: every invocation reads
\* a port that is not a forwarding port from the partition of scope "s1".
getLoopFirstScope(m, scope, args, i, res) ==
  IF i > Len(args)
  THEN [m |-> m, status |-> "ok",
        value |-> IF Len(args) = 1 THEN res[1] ELSE res]
  ELSE IF ~ValidRef(args[i])
  THEN [m |-> m, status |-> "AddressabilityMismatch", value |-> Absent]
  ELSE IF isForwardingInport(args[i].name)
  THEN Then(getForForwarding(m, scope, args[i].name, args[i].idx), LAMBDA r :
         IF r.status # "ok"
         THEN [m |-> r.m, status |-> r.status, value |-> Absent]
         ELSE getLoop(r.m, scope, args, i + 1, Append(res, r.value)))
  ELSE Then(PortGet(m, args[i].name, "s1", args[i].idx), LAMBDA r :
         getLoop(r.m, scope, args, i + 1, Append(res, r.ip)))

getLoop(m, scope, args, i, res) ==
  IF i > Len(args)
  THEN [m |-> m, status |-> "ok",
        value |-> IF Len(args) = 1 THEN res[1] ELSE res]
  ELSE
    LET port == args[i]
        fail(s) == [m |-> m, status |-> s, value |-> Absent]
    IN  IF port.name \notin PortNames
        THEN fail("TypeError")
        ELSE IF port.array /\ ~isAddressable(port.name)
        THEN fail("AddressabilityMismatch")
        ELSE IF ~port.array /\ isAddressable(port.name)
        THEN fail("AddressabilityMismatch")
        ELSE IF isForwardingInport(port.name)
        THEN Then(getForForwarding(m, scope, port.name, port.idx), LAMBDA r :
               IF r.status # "ok"
               THEN [m |-> r.m, status |-> r.status, value |-> Absent]
               ELSE getLoop(r.m, scope, args, i + 1, Append(res, r.value)))
        ELSE Then(PortGet(m, port.name, scope, port.idx), LAMBDA r :
               getLoop(r.m, scope, args, i + 1, Append(res, r.ip)))

get(m, scope, params) ==
  getLoop(activate(m, scope), scope, DefaultArgs(params), 1, <<>>)

-----------------------------------------------------------------------------
\* Preconditions.  A validation callback is one of:
\*   "none"    no callback given (has then accepts every IP)
\*   a type    a caller's callback (ip) => ip.type === that type
\*   "stream"  the closure hasStream builds, with its portBrackets and hasData

\* State of hasStream's closure at the start of a port.
FreshScan == [portBrackets |-> <<>>, hasData |-> FALSE]

\* Validate with hasStream's `if (!portBrackets.length)` test lost: a data IP
\* inside brackets already counts as a stream.
ValidateDataAtAnyDepth(validate, ip, st) ==
  IF validate = "none" THEN [ret |-> TRUE, st |-> st]
  ELSE IF validate # "stream" THEN [ret |-> ip.type = validate, st |-> st]
  ELSE IF ip.type = "openBracket"
  THEN [ret |-> FALSE, st |-> [st EXCEPT !.portBrackets = Append(@, ip.data)]]
  ELSE IF ip.type = "data"
  THEN [ret |-> TRUE, st |-> [st EXCEPT !.hasData = TRUE]]
  ELSE [ret |-> Len(st.portBrackets) <= 1 /\ st.hasData,
        st |-> [st EXCEPT !.portBrackets = IF @ = <<>> THEN <<>>
                                           ELSE SubSeq(@, 1, Len(@) - 1)]]

\* One call of the validation callback: its return value and the closure's
\* state after it.  validateStream is the default () => true.
Validate(validate, ip, st) ==
  IF validate = "none" THEN [ret |-> TRUE, st |-> st]
  ELSE IF validate # "stream" THEN [ret |-> ip.type = validate, st |-> st]
  ELSE IF ip.type = "openBracket"
  THEN [ret |-> FALSE,
        st |-> [st EXCEPT !.portBrackets = Append(@, ip.data)]]
  ELSE IF ip.type = "data"
  THEN [ret |-> st.portBrackets = <<>>,
        st |-> [st EXCEPT !.hasData = TRUE]]
  ELSE IF ip.type = "closeBracket"
  THEN LET popped == IF st.portBrackets = <<>> THEN <<>>
                     ELSE SubSeq(st.portBrackets, 1, Len(st.portBrackets) - 1)
       IN  [ret |-> popped = <<>> /\ st.hasData,
            st |-> [st EXCEPT !.portBrackets = popped]]
  ELSE [ret |-> FALSE, st |-> st]

\* InPort.has(scope, idx, validate): true at the first buffered IP, in buffer
\* order, that the callback accepts.  Nothing is removed.
RECURSIVE PortHasFrom(_, _, _, _)
PortHasFrom(buf, i, validate, st) ==
  IF i > Len(buf) THEN FALSE
  ELSE Then(Validate(validate, buf[i], st), LAMBDA v :
         v.ret \/ PortHasFrom(buf, i + 1, validate, v.st))

PortHas(m, port, scope, idx, validate) ==
  PortHasFrom(m.buffers[<<port, scope, idx>>], 1, validate, FreshScan)

\* params.filter((p) => typeof p === 'string')
StringArgs(params) == SelectSeq(params, LAMBDA p : ~p.array)

RECURSIVE hasLoop(_, _, _, _, _)
hasLoop(m, scope, args, i, validate) ==
  IF i > Len(args)
  THEN [m |-> m, status |-> "ok", value |-> TRUE]
  ELSE
    LET port == args[i]
        fail(s) == [m |-> m, status |-> s, value |-> FALSE]
    IN  IF port.array
        THEN IF port.name \notin PortNames THEN fail("UnknownPort")
             ELSE IF ~isAddressable(port.name) THEN fail("AddressabilityMismatch")
             ELSE IF ~PortHas(m, port.name, scope, port.idx, validate)
             THEN [m |-> m, status |-> "ok", value |-> FALSE]
             ELSE hasLoop(m, scope, args, i + 1, validate)
        ELSE IF port.name \notin PortNames THEN fail("UnknownPort")
             ELSE IF isAddressable(port.name) THEN fail("AddressabilityMismatch")
             ELSE IF ~PortHas(m, port.name, scope, NoIdx, validate)
             THEN [m |-> m, status |-> "ok", value |-> FALSE]
             ELSE hasLoop(m, scope, args, i + 1, validate)

\* has written with the port's get in place of its has: a port that holds a
\* packet loses its first one to the check.
hasByDequeue(m, scope, params, validate) ==
  Then(hasLoop(m, scope, DefaultArgs(StringArgs(params)), 1, validate), LAMBDA r :
    IF r.status = "ok" /\ r.value
    THEN [r EXCEPT !.m = PortGet(m, DefaultArgs(StringArgs(params))[1].name, scope,
                                 DefaultArgs(StringArgs(params))[1].idx).m]
    ELSE r)

\* has(...params): params are the port references, validate the trailing
\* callback ("none" when the last parameter is no function).
has(m, scope, params, validate) ==
  hasLoop(m, scope, DefaultArgs(StringArgs(params)), 1, validate)

hasData(m, scope, params) ==
  has(m, scope, DefaultArgs(params), "data")

\* hasStream(...params) with the default validateStream: has(port, validate)
\* for each port in turn, each with a fresh closure.
RECURSIVE hasStreamLoop(_, _, _, _)
hasStreamLoop(m, scope, args, i) ==
  IF i > Len(args)
  THEN [m |-> m, status |-> "ok", value |-> TRUE]
  ELSE Then(has(m, scope, <<args[i]>>, "stream"), LAMBDA r :
         IF r.status # "ok" \/ ~r.value
         THEN r
         ELSE hasStreamLoop(r.m, scope, args, i + 1))

hasStream(m, scope, params) ==
  hasStreamLoop(m, scope, DefaultArgs(params), 1)

-----------------------------------------------------------------------------
\* getData(...params): for each port, get until a data IP.

\* The while loop of getData: packet is an IP that is not yet known to be data.
RECURSIVE getDataSkip(_, _, _, _)
getDataSkip(m, scope, port, packet) ==
  IF packet.type = "data"
  THEN [m |-> m, status |-> "ok", value |-> packet.data]
  ELSE Then(get(m, scope, <<port>>), LAMBDA r :
         IF r.status # "ok"
         THEN [m |-> r.m, status |-> r.status, value |-> NoData]
         ELSE IF r.value = Absent
         \* break, and then packet.data of undefined
         THEN [m |-> r.m, status |-> "TypeError", value |-> NoData]
         ELSE getDataSkip(r.m, scope, port, r.value))

\* One port of getData: the entry it pushes onto datas.
getDataPort(m, scope, port) ==
  Then(get(m, scope, <<port>>), LAMBDA r :
    IF r.status # "ok"
    THEN [m |-> r.m, status |-> r.status, value |-> NoData]
    ELSE IF r.value = Absent
    THEN [m |-> r.m, status |-> "ok", value |-> NoData]
    ELSE getDataSkip(r.m, scope, port, r.value))

RECURSIVE getDataLoop(_, _, _, _, _)
getDataLoop(m, scope, args, i, datas) ==
  IF i > Len(args)
  THEN [m |-> m, status |-> "ok",
        value |-> IF Len(args) = 1 THEN datas[Len(datas)] ELSE datas]
  ELSE Then(getDataPort(m, scope, args[i]), LAMBDA r :
         IF r.status # "ok"
         THEN r
         ELSE getDataLoop(r.m, scope, args, i + 1, Append(datas, r.value)))

getData(m, scope, params) ==
  getDataLoop(m, scope, DefaultArgs(params), 1, <<>>)

-----------------------------------------------------------------------------
\* getStream(...params): for each port, get until the stream is complete.

\* An entry of datas: the undefined pushed for a port that gave nothing, or a
\* list of packets.
Undefined == [undefined |-> TRUE, packets |-> <<>>]

Packets(list) == [undefined |-> FALSE, packets |-> list]

\* portBrackets, portPackets and hasData at the start of a port.
FreshStream == [portBrackets |-> <<>>, portPackets |-> <<>>, hasData |-> FALSE]

\* The while (ip) loop: ip is the packet just read, st the loop's portBrackets,
\* portPackets and hasData.
RECURSIVE getStreamWhile(_, _, _, _, _)

\* getStreamWhile with the `!portBrackets.length` test of the reset lost: every
\* openBracket drops what was read before it.
getStreamWhileResetAlways(m, scope, port, ip, st) ==
  IF ip = Absent
  THEN [m |-> m, status |-> "ok", value |-> st.portPackets]
  ELSE IF ip.type = "openBracket"
  THEN Then(get(m, scope, <<port>>), LAMBDA r :
         getStreamWhile(r.m, scope, port, r.value,
                        [portBrackets |-> Append(st.portBrackets, ip.data),
                         portPackets |-> <<ip>>, hasData |-> FALSE]))
  ELSE IF ip.type = "data" /\ st.portBrackets = <<>>
  THEN [m |-> m, status |-> "ok", value |-> Append(st.portPackets, ip)]
  ELSE IF ip.type = "data"
  THEN Then(get(m, scope, <<port>>), LAMBDA r :
         getStreamWhile(r.m, scope, port, r.value,
                        [st EXCEPT !.portPackets = Append(@, ip), !.hasData = TRUE]))
  ELSE IF st.hasData /\ Len(st.portBrackets) <= 1
  THEN [m |-> m, status |-> "ok", value |-> Append(st.portPackets, ip)]
  ELSE Then(get(m, scope, <<port>>), LAMBDA r :
         getStreamWhile(r.m, scope, port, r.value,
                        [st EXCEPT !.portPackets = Append(@, ip),
                                   !.portBrackets = IF @ = <<>> THEN <<>>
                                                    ELSE SubSeq(@, 1, Len(@) - 1)]))

\* getStreamWhile with the depth test of the closing break lost: the first
\* closeBracket after data ends the stream.
getStreamWhileAnyClose(m, scope, port, ip, st) ==
  IF ip = Absent
  THEN [m |-> m, status |-> "ok", value |-> st.portPackets]
  ELSE IF ip.type = "openBracket"
  THEN Then(get(m, scope, <<port>>), LAMBDA r :
         getStreamWhile(r.m, scope, port, r.value,
                        [portBrackets |-> Append(st.portBrackets, ip.data),
                         portPackets |-> IF st.portBrackets = <<>> THEN <<ip>>
                                         ELSE Append(st.portPackets, ip),
                         hasData |-> st.portBrackets # <<>> /\ st.hasData]))
  ELSE IF ip.type = "data" /\ st.portBrackets = <<>>
  THEN [m |-> m, status |-> "ok", value |-> Append(st.portPackets, ip)]
  ELSE IF ip.type = "data"
  THEN Then(get(m, scope, <<port>>), LAMBDA r :
         getStreamWhile(r.m, scope, port, r.value,
                        [st EXCEPT !.portPackets = Append(@, ip), !.hasData = TRUE]))
  ELSE IF st.hasData
  THEN [m |-> m, status |-> "ok", value |-> Append(st.portPackets, ip)]
  ELSE Then(get(m, scope, <<port>>), LAMBDA r :
         getStreamWhile(r.m, scope, port, r.value,
                        [st EXCEPT !.portPackets = Append(@, ip),
                                   !.portBrackets = IF @ = <<>> THEN <<>>
                                                    ELSE SubSeq(@, 1, Len(@) - 1)]))
getStreamWhile(m, scope, port, ip, st) ==
  IF ip = Absent
  THEN [m |-> m, status |-> "ok", value |-> st.portPackets]
  ELSE
    LET atOpen ==
          IF ip.type = "openBracket"
          THEN LET reset == IF st.portBrackets = <<>>
                            THEN [st EXCEPT !.portPackets = <<>>, !.hasData = FALSE]
                            ELSE st
               IN  [reset EXCEPT !.portBrackets = Append(@, ip.data),
                                 !.portPackets = Append(@, ip)]
          ELSE st
        atData ==
          IF ip.type = "data"
          THEN [atOpen EXCEPT !.portPackets = Append(@, ip), !.hasData = TRUE]
          ELSE atOpen
        atClose ==
          IF ip.type = "closeBracket"
          THEN [atData EXCEPT
                  !.portPackets = Append(@, ip),
                  !.portBrackets = IF @ = <<>> THEN <<>>
                                   ELSE SubSeq(@, 1, Len(@) - 1)]
          ELSE atData
    IN  IF ip.type = "data" /\ atData.portBrackets = <<>>
        THEN [m |-> m, status |-> "ok", value |-> atData.portPackets]
        ELSE IF ip.type = "closeBracket" /\ atClose.hasData /\ atClose.portBrackets = <<>>
        THEN [m |-> m, status |-> "ok", value |-> atClose.portPackets]
        ELSE Then(get(m, scope, <<port>>), LAMBDA r :
               IF r.status # "ok"
               THEN [m |-> r.m, status |-> r.status, value |-> <<>>]
               ELSE getStreamWhile(r.m, scope, port, r.value, atClose))

\* getStreamPort with a list that holds no data IP dropped instead of returned.
getStreamPortDropsPartial(m, scope, port) ==
  Then(get(m, scope, <<port>>), LAMBDA r :
    IF r.status # "ok"
    THEN [m |-> r.m, status |-> r.status, value |-> <<>>]
    ELSE Then(getStreamWhile(r.m, scope, port, r.value, FreshStream), LAMBDA w :
           IF w.status # "ok"
           THEN w
           ELSE [m |-> w.m, status |-> "ok",
                 value |-> <<Packets(IF \E i \in 1..Len(w.value) :
                                          w.value[i].type = "data"
                                    THEN w.value ELSE <<>>)>>]))

\* One port of getStream: the entries it pushes onto datas.
getStreamPort(m, scope, port) ==
  Then(get(m, scope, <<port>>), LAMBDA r :
    IF r.status # "ok"
    THEN [m |-> r.m, status |-> r.status, value |-> <<>>]
    ELSE Then(getStreamWhile(r.m, scope, port, r.value, FreshStream), LAMBDA w :
           IF w.status # "ok"
           THEN w
           ELSE [m |-> w.m, status |-> "ok",
                 value |-> (IF r.value = Absent THEN <<Undefined>> ELSE <<>>)
                           \o <<Packets(w.value)>>]))

RECURSIVE getStreamLoop(_, _, _, _, _)
getStreamLoop(m, scope, args, i, datas) ==
  IF i > Len(args)
  THEN [m |-> m, status |-> "ok",
        value |-> IF Len(args) = 1 THEN datas[Len(datas)] ELSE datas]
  ELSE Then(getStreamPort(m, scope, args[i]), LAMBDA r :
         IF r.status # "ok"
         THEN [m |-> r.m, status |-> r.status, value |-> Undefined]
         ELSE getStreamLoop(r.m, scope, args, i + 1, datas \o r.value))

getStream(m, scope, params) ==
  getStreamLoop(m, scope, DefaultArgs(params), 1, <<>>)

-----------------------------------------------------------------------------
\* The state.

VARIABLES
  buffers,         \* [Parts -> Seq(IP)]: the port buffers
  bracketContext,  \* [Parts -> Seq(frame reference)]: the node's 'in' bracket contexts
  heap,            \* Seq(bracket context object); a reference is an index into it
  result,          \* [Scopes -> context.result]
  activated,       \* [Scopes -> context.activated]
  load,            \* nodeInstance.load
  ordered,         \* nodeInstance.isOrdered()
  earlier,         \* [Scopes -> the result of the scope's previous invocation]
  lastCall,        \* the latest call on a ProcessInput and what it gave
  readRun          \* the current run of consecutive single-port get calls

vars == <<buffers, bracketContext, heap, result, activated, load, ordered,
          earlier, lastCall, readRun>>

M == [buffers |-> buffers, bracketContext |-> bracketContext, heap |-> heap,
      result |-> result, activated |-> activated, load |-> load,
      ordered |-> ordered, portReads |-> 0]

\* context.result as ProcessContext creates it: {}.
FreshResult ==
  [resolved |-> "unset",
   bracketClosingBefore |-> [defined |-> FALSE, frames |-> <<>>],
   bracketContext |-> [p \in PortNames |-> [defined |-> FALSE, frames |-> <<>>]]]

NoCall == [op |-> "none", scope |-> "s1", params |-> <<>>, validate |-> "none",
           status |-> "ok", value |-> Absent, reads |-> 0]

NoRun == [scope |-> "s1", params |-> <<>>, base |-> <<>>, log |-> <<>>]

\* What a thrown call leaves in the log of a run.
Thrown == [type |-> "thrown", data |-> 0]

\* The IPs a producer put into a buffer: types as chosen, each IP a distinct
\* object.  A data IP carries its own payload, an openBracket its own label, a
\* closeBracket the label of the bracket it closes (its own when it closes none).
RECURSIVE StampFrom(_, _, _, _)
StampFrom(types, base, i, open) ==
  IF i > Len(types) THEN <<>>
  ELSE IF types[i] = "openBracket"
  THEN <<IP(types[i], base + i)>> \o StampFrom(types, base, i + 1, Append(open, base + i))
  ELSE IF types[i] = "closeBracket" /\ open # <<>>
  THEN <<IP(types[i], open[Len(open)])>>
         \o StampFrom(types, base, i + 1, SubSeq(open, 1, Len(open) - 1))
  ELSE <<IP(types[i], base + i)>> \o StampFrom(types, base, i + 1, open)

PartBase(key) ==
  (CASE key[1] = "in" -> 0 [] key[1] = "fwd" -> 10 [] OTHER -> 20 + 10 * key[3])
  + (IF key[2] = "s1" THEN 0 ELSE 50)

Stamp(types, key) == StampFrom(types, PartBase(key), 1, <<>>)

TypeSeqs(n) == UNION {[1..k -> IPTypes] : k \in 0..n}

\* The state after the ProcessInput of each invocation is constructed, with the
\* buffers as given.
InitWith(bufs, ord) ==
  /\ buffers = bufs
  /\ bracketContext = [k \in Parts |-> <<>>]
  /\ heap = <<>>
  /\ result = [s \in Scopes |-> FreshResult]
  /\ activated = [s \in Scopes |-> FALSE]
  /\ load = 0
  /\ ordered = ord
  /\ earlier = [s \in Scopes |-> FreshResult]
  /\ lastCall = NoCall
  /\ readRun = NoRun

\* Buffers with one partition filled.
OneFilled(key, types) ==
  [k \in Parts |-> IF k = key THEN Stamp(types, k) ELSE <<>>]

\* Buffers with two partitions filled.
TwoFilled(key1, types1, key2, types2) ==
  [k \in Parts |-> IF k = key1 THEN Stamp(types1, k)
                   ELSE IF k = key2 THEN Stamp(types2, k) ELSE <<>>]

-----------------------------------------------------------------------------
\* The calls.  Each is one synchronous call on the ProcessInput of the
\* invocation with the given scope; r is what the call does and gives.

\* What the caller of op receives from r, by the kind of value: nothing when
\* the call threw, a boolean, a payload, a packet or list of packets (as it
\* is), or the array built for several ports.
Returned(r, op, params) ==
  IF r.status # "ok" THEN Absent
  ELSE IF op \in {"has", "hasData", "hasStream"} THEN [bool |-> r.value]
  ELSE IF Len(DefaultArgs(params)) # 1 THEN [list |-> r.value]
  ELSE IF op = "getData" THEN [payload |-> r.value]
  ELSE r.value

Commit(r, op, scope, params, validate) ==
  /\ buffers' = r.m.buffers
  /\ bracketContext' = r.m.bracketContext
  /\ heap' = r.m.heap
  /\ result' = r.m.result
  /\ activated' = r.m.activated
  /\ load' = r.m.load
  /\ ordered' = r.m.ordered
  /\ earlier' = earlier
  /\ lastCall' = [op |-> op, scope |-> scope, params |-> params,
                  validate |-> validate, status |-> r.status,
                  value |-> Returned(r, op, params), reads |-> r.m.portReads]

Has(scope, params, validate) ==
  /\ Commit(has(M, scope, params, validate), "has", scope, params, validate)
  /\ readRun' = NoRun

HasData(scope, params) ==
  /\ Commit(hasData(M, scope, params), "hasData", scope, params, "none")
  /\ readRun' = NoRun

HasStream(scope, params) ==
  /\ Commit(hasStream(M, scope, params), "hasStream", scope, params, "none")
  /\ readRun' = NoRun

\* The run of consecutive single-port get calls after one more of them: its
\* reference, the buffer it started from and what each call gave.
NextRun(scope, params, entry) ==
  IF Len(params) # 1 \/ ~ValidRef(params[1]) THEN NoRun
  ELSE IF /\ readRun.params = params
          /\ readRun.scope = scope
          /\ Len(readRun.log) <= Len(readRun.base)
  THEN [readRun EXCEPT !.log = Append(@, entry)]
  ELSE [scope |-> scope, params |-> params,
        base |-> BufferOf(buffers, scope, params[1]),
        log |-> <<entry>>]

Get(scope, params) ==
  /\ Commit(get(M, scope, params), "get", scope, params, "none")
  /\ readRun' = NextRun(scope, params,
                        IF lastCall'.status = "ok" THEN lastCall'.value ELSE Thrown)

GetData(scope, params) ==
  /\ Commit(getData(M, scope, params), "getData", scope, params, "none")
  /\ readRun' = NoRun

GetStream(scope, params) ==
  /\ Commit(getStream(M, scope, params), "getStream", scope, params, "none")
  /\ readRun' = NoRun

\* The component logic marks the invocation's result as resolved (output.done).
Resolve(scope) ==
  /\ activated[scope]
  /\ result[scope].resolved # "true"
  /\ result' = [result EXCEPT ![scope].resolved = "true"]
  /\ lastCall' = [NoCall EXCEPT !.op = "resolve", !.scope = scope]
  /\ readRun' = NoRun
  /\ UNCHANGED <<buffers, bracketContext, heap, activated, load, ordered, earlier>>

\* The next firing of the component in the scope: a new ProcessContext with a
\* fresh result, not activated.  The result of the firing before it stays with
\* whoever sends its output.
NewInvocation(scope) ==
  /\ activated[scope]
  /\ load < MaxFirings
  /\ earlier' = [earlier EXCEPT ![scope] = result[scope]]
  /\ result' = [result EXCEPT ![scope] = FreshResult]
  /\ activated' = [activated EXCEPT ![scope] = FALSE]
  /\ lastCall' = [NoCall EXCEPT !.op = "newInvocation", !.scope = scope]
  /\ readRun' = NoRun
  /\ UNCHANGED <<buffers, bracketContext, heap, load, ordered>>

-----------------------------------------------------------------------------
\* Port references a component may write, valid or not.
Refs == {Name(p) : p \in PortNames}
          \cup {Pair("in", 0)} \cup {Pair("arr", i) : i \in Indexes}

SingleParams == {<<>>} \cup {<<p>> : p \in Refs}

\* Reading from one port at a time: one buffer of the invocation's scope is
\* filled, a plain port's with up to MaxLen packets.
Init ==
  \E key \in {k \in Parts : k[2] = "s1"} :
    \E types \in TypeSeqs(IF isAddressable(key[1]) THEN MaxSide ELSE MaxLen) :
      InitWith(OneFilled(key, types), FALSE)

Next ==
  \E params \in SingleParams :
    \/ Get("s1", params)
    \/ GetData("s1", params)
    \/ GetStream("s1", params)

Spec == Init /\ [][Next]_vars

-----------------------------------------------------------------------------
\* Preconditions on one port at a time, between reads of the forwarding port.
\* One buffer of the invocation's scope is filled.

\* The callbacks a caller passes to has: none, or a test of the IP's type.
CallerValidators == {"none"} \cup IPTypes

InitPre ==
  \E key \in {k \in Parts : k[2] = "s1"} :
    \E types \in TypeSeqs(IF isAddressable(key[1]) THEN MaxSide ELSE MaxScan) :
      InitWith(OneFilled(key, types), FALSE)

NextPre ==
  \/ \E params \in SingleParams :
       \/ \E validate \in {"none", "openBracket"} : Has("s1", params, validate)
       \/ HasData("s1", params)
       \/ HasStream("s1", params)
  \/ Get("s1", <<Name("fwd")>>)

SpecPre == InitPre /\ [][NextPre]_vars

-----------------------------------------------------------------------------
\* Calls that name two ports.  Two buffers of the invocation's scope are filled
\* (one, when the same partition is chosen twice).

ValidRefs == {p \in Refs : ValidRef(p)}

PairParams == {<<p, q>> : p \in Refs, q \in Refs}

ValidPairParams == {<<p, q>> : p \in ValidRefs, q \in ValidRefs}

InitPair ==
  \E key1 \in {k \in Parts : k[2] = "s1"}, key2 \in {k \in Parts : k[2] = "s1"} :
    \E types1 \in TypeSeqs(MaxPair), types2 \in TypeSeqs(MaxPair) :
      InitWith(TwoFilled(key1, types1, key2, types2), FALSE)

\* Preconditions joined by AND.
NextAnd ==
  \E params \in ValidPairParams :
    \/ \E validate \in CallerValidators : Has("s1", params, validate)
    \/ HasData("s1", params)
    \/ HasStream("s1", params)

SpecAnd == InitPair /\ [][NextAnd]_vars

\* Reads of two ports in one call.
NextMulti ==
  \E params \in PairParams :
    \/ Get("s1", params)
    \/ GetData("s1", params)
    \/ GetStream("s1", params)

SpecMulti == InitPair /\ [][NextMulti]_vars

-----------------------------------------------------------------------------
\* A chain of invocations of one scope reading the forwarding port, in an
\* ordered or an unordered component.  A read of the plain port finds nothing.

ChainParams == {<<Name("in")>>, <<Name("fwd")>>}

InitChain ==
  \E types \in TypeSeqs(MaxChain), ord \in BOOLEAN :
    InitWith(OneFilled(<<"fwd", "s1", NoIdx>>, types), ord)

NextChain ==
  \/ \E params \in ChainParams :
       \/ Get("s1", params)
       \/ GetData("s1", params)
       \/ GetStream("s1", params)
  \/ Resolve("s1")
  \/ NewInvocation("s1")

SpecChain == InitChain /\ [][NextChain]_vars

-----------------------------------------------------------------------------
\* Two invocations with different scopes reading the same port, their calls
\* interleaved in any order.  Both scopes' partitions of one port are filled.

\* The ports the two invocations read: the plain one and the forwarding one.
SharedRefs == {Name("in"), Name("fwd")}

InitScopes ==
  \E p \in SharedRefs :
    \E types1 \in TypeSeqs(MaxShared), types2 \in TypeSeqs(MaxShared) :
      InitWith(TwoFilled(<<p.name, "s1", p.idx>>, types1,
                         <<p.name, "s2", p.idx>>, types2), FALSE)

\* The component reads a port that packets have arrived on: one that still
\* holds packets for some scope, or the one it read last.
Arrived(p) ==
  \/ \E s \in Scopes : buffers[<<p.name, s, p.idx>>] # <<>>
  \/ lastCall.params = <<p>>

NextScopes ==
  \E scope \in Scopes :
    \E p \in {q \in SharedRefs : Arrived(q)} :
      \/ Get(scope, <<p>>)
      \/ GetData(scope, <<p>>)
      \/ GetStream(scope, <<p>>)

SpecScopes == InitScopes /\ [][NextScopes]_vars

-----------------------------------------------------------------------------
\* Claims about reading one port at a time (Spec).

\* What a run of single-port get calls gave is the buffer it started from, in
\* order, and then nothing.
RunInOrder ==
  \A i \in 1..Len(readRun.log) :
    readRun.log[i] = IF i <= Len(readRun.base) THEN readRun.base[i] ELSE Absent

\* C1 as stated: on any input port, N buffered packets are returned by N
\* consecutive single-port get calls in their buffered order, each once, and
\* the (N+1)-th call returns nothing.
C1_AnyPort == RunInOrder

\* C1 amended: on any input port that is not a forwarding port, N buffered
\* packets (data, openBracket and closeBracket alike) are returned by N
\* consecutive single-port get calls in their buffered order, each once, and
\* the (N+1)-th call returns nothing.
C1_PlainPortFifo ==
  (readRun.log # <<>> /\ ~isForwardingInport(readRun.params[1].name))
    => RunInOrder

\* C1's case: a plain port held three or more packets of all three types, and
\* a run of N+1 get calls has read it to the end.
C1_Witness ==
  /\ readRun.log # <<>>
  /\ ~isForwardingInport(readRun.params[1].name)
  /\ Len(readRun.base) >= 3
  /\ {readRun.base[i].type : i \in 1..Len(readRun.base)} = IPTypes
  /\ Len(readRun.log) = Len(readRun.base) + 1

\* The types of a sequence of packets.
TypesOf(seq) == [i \in 1..Len(seq) |-> seq[i].type]

\* Reference p is a valid reference and this step is the single-port call op(p).
Calls(op, p) ==
  /\ ValidRef(p)
  /\ lastCall'.op = op
  /\ lastCall'.scope = "s1"
  /\ lastCall'.params = <<p>>

ResetBuffer == <<"openBracket", "data", "openBracket", "data", "closeBracket">>

\* C3 as stated: getStream on the buffer [openBracket, data, openBracket, data,
\* closeBracket] drops the first two packets and returns the last three.
C3_DropsFirstTwo ==
  [][\A p \in Refs :
       (Calls("getStream", p) /\ TypesOf(BufferOf(buffers, "s1", p)) = ResetBuffer)
         => /\ lastCall'.status = "ok"
            /\ lastCall'.value = Packets(SubSeq(BufferOf(buffers, "s1", p), 3, 5))]_vars

\* C3 amended: getStream on a port that is not a forwarding port and whose
\* buffer is [openBracket, data, openBracket, data, closeBracket] drops nothing:
\* the second openBracket is read at depth one, so it returns all five packets
\* in order and leaves the buffer empty.
C3_KeepsAllFive ==
  [][\A p \in Refs :
       (/\ Calls("getStream", p)
        /\ ~isForwardingInport(p.name)
        /\ TypesOf(BufferOf(buffers, "s1", p)) = ResetBuffer)
         => /\ lastCall'.status = "ok"
            /\ lastCall'.value = Packets(BufferOf(buffers, "s1", p))
            /\ BufferOf(buffers', "s1", p) = <<>>]_vars

\* C3's case: a getStream on a plain port has just read that buffer.
C3_Witness ==
  /\ lastCall.op = "getStream"
  /\ Len(lastCall.params) = 1
  /\ ValidRef(lastCall.params[1])
  /\ ~isForwardingInport(lastCall.params[1].name)
  /\ lastCall.status = "ok"
  /\ TypesOf(lastCall.value.packets) = ResetBuffer

HasType(seq, type) == \E i \in 1..Len(seq) : seq[i].type = type

FirstData(seq) == seq[CHOOSE i \in 1..Len(seq) :
                        /\ seq[i].type = "data"
                        /\ \A j \in 1..(i - 1) : seq[j].type # "data"]

\* C4 (on ports that are not forwarding ports): getData on a buffer without a
\* data IP raises no error and yields no value; on a buffer with one it yields
\* the payload of the first.
C4_ReadValueTotal ==
  [][\A p \in Refs :
       (Calls("getData", p) /\ ~isForwardingInport(p.name))
         => /\ lastCall'.status = "ok"
            /\ lastCall'.value.payload =
                 IF HasType(BufferOf(buffers, "s1", p), "data")
                 THEN FirstData(BufferOf(buffers, "s1", p)).data
                 ELSE NoData]_vars

\* Brackets open after the first k packets of seq.
Depth(seq, k) ==
  Cardinality({i \in 1..k : seq[i].type = "openBracket"})
    - Cardinality({i \in 1..k : seq[i].type = "closeBracket"})

\* seq is one complete framed stream: an openBracket, packets inside it with
\* data among them, and the closeBracket that closes it.
FramedStream(seq) ==
  /\ seq # <<>>
  /\ seq[1].type = "openBracket"
  /\ HasType(seq, "data")
  /\ Depth(seq, Len(seq)) = 0
  /\ \A k \in 1..(Len(seq) - 1) : Depth(seq, k) >= 1

\* What C8 says of getStream on reference p in this step.
ReturnsFramedStream(p) ==
  LET buf == BufferOf(buffers, "s1", p)
  IN  /\ \A k \in 1..Len(buf) :
           FramedStream(SubSeq(buf, 1, k))
             => /\ lastCall'.status = "ok"
                /\ lastCall'.value = Packets(SubSeq(buf, 1, k))
                /\ BufferOf(buffers', "s1", p) = SubSeq(buf, k + 1, Len(buf))

ReturnsBareData(p) ==
  LET buf == BufferOf(buffers, "s1", p)
  IN  TypesOf(buf) = <<"data">>
        => /\ lastCall'.status = "ok"
           /\ lastCall'.value = Packets(buf)

\* C8 as stated: on any input port, getStream on a buffer that begins with a
\* complete framed stream returns that stream, brackets included, and leaves
\* the rest buffered; on a single bare data IP it returns that one packet.
C8_AnyPort ==
  [][\A p \in Refs :
       Calls("getStream", p) => (ReturnsFramedStream(p) /\ ReturnsBareData(p))]_vars

\* C8 amended: on any input port that is not a forwarding port, getStream on a
\* buffer that begins with a complete framed stream returns that stream,
\* brackets included and in order, and leaves the rest buffered; on any port
\* holding a single bare data IP it returns that one packet.
C8_PlainPortStream ==
  [][\A p \in Refs :
       Calls("getStream", p)
         => /\ ~isForwardingInport(p.name) => ReturnsFramedStream(p)
            /\ ReturnsBareData(p)]_vars

\* C8's case: a getStream on a plain port has returned a framed stream of four
\* or more packets and left packets behind it.
C8_Witness ==
  /\ lastCall.op = "getStream"
  /\ Len(lastCall.params) = 1
  /\ ValidRef(lastCall.params[1])
  /\ ~isForwardingInport(lastCall.params[1].name)
  /\ lastCall.status = "ok"
  /\ FramedStream(lastCall.value.packets)
  /\ Len(lastCall.value.packets) >= 4
  /\ BufferOf(buffers, "s1", lastCall.params[1]) # <<>>

Fwd == <<"fwd", "s1", NoIdx>>

\* C10: on the forwarding port with buffer [openBracket(L), data(x),
\* closeBracket(L)] and an empty bracket context, one getData returns x, leaves
\* in result.__bracketContext[port] one context whose ip is openBracket(L) and
\* which has no closeIp, leaves the live bracket context with that same one
\* context, and leaves closeBracket(L) in the buffer.
C10_ForwardingKeepsBracket ==
  [][(/\ Calls("getData", Name("fwd"))
      /\ TypesOf(buffers[Fwd]) = <<"openBracket", "data", "closeBracket">>
      /\ buffers[Fwd][1].data = buffers[Fwd][3].data
      /\ bracketContext[Fwd] = <<>>)
       => /\ lastCall'.status = "ok"
          /\ lastCall'.value.payload = buffers[Fwd][2].data
          /\ result'["s1"].bracketContext["fwd"].defined
          /\ Len(result'["s1"].bracketContext["fwd"].frames) = 1
          /\ heap'[result'["s1"].bracketContext["fwd"].frames[1]].ip = buffers[Fwd][1]
          /\ heap'[result'["s1"].bracketContext["fwd"].frames[1]].closeIp = Absent
          /\ bracketContext'[Fwd] = result'["s1"].bracketContext["fwd"].frames
          /\ buffers'[Fwd] = <<buffers[Fwd][3]>>]_vars

\* C10's case: the getData has run on such a buffer; the one context ever
\* made is open and its closeBracket is what the buffer still holds.
C10_Witness ==
  /\ lastCall.op = "getData"
  /\ lastCall.params = <<Name("fwd")>>
  /\ lastCall.status = "ok"
  /\ lastCall.value.payload # NoData
  /\ Len(heap) = 1
  /\ bracketContext[Fwd] = <<1>>
  /\ TypesOf(buffers[Fwd]) = <<"closeBracket">>
  /\ buffers[Fwd][1].data = heap[1].ip.data

-----------------------------------------------------------------------------
\* Claims about the preconditions (SpecPre, SpecAnd).

PreconditionOps == {"has", "hasData", "hasStream"}

\* C2: a has, hasData or hasStream call, on any reference and with any
\* callback, leaves every port buffer, every bracket context, the invocation
\* results, the activation flags and the load as they were, so that a get of
\* any port gives after the call what it would have given before it.
C2_PreconditionsPure ==
  [][lastCall'.op \in PreconditionOps
       => /\ UNCHANGED <<buffers, bracketContext, heap, result, activated, load>>
          /\ \A p \in ValidRefs :
               get(M', "s1", <<p>>).value = get(M, "s1", <<p>>).value]_vars

\* C2's case: after a forwarding read left a bracket context open and packets
\* in the buffer, a hasStream on that port has answered true.
C2_Witness ==
  /\ lastCall.op = "hasStream"
  /\ lastCall.params = <<Name("fwd")>>
  /\ lastCall.status = "ok"
  /\ lastCall.value.bool
  /\ bracketContext[Fwd] # <<>>
  /\ result["s1"].bracketContext["fwd"].defined
  /\ buffers[Fwd] # <<>>
  /\ activated["s1"]

\* A reference to an existing port in the form its port does not take.
MismatchRef(p) == p.name \in PortNames /\ p.array # isAddressable(p.name)

\* C6: has, hasData and hasStream called with an array for a non-addressable
\* port, or with a string for an addressable port, fail with the
\* addressability error; they return neither true nor false.
C6_PreconditionRejectsMismatch ==
  [][\A p \in Refs :
       (/\ MismatchRef(p)
        /\ lastCall'.op \in PreconditionOps
        /\ lastCall'.params = <<p>>)
         => lastCall'.status = "AddressabilityMismatch"]_vars

\* Brackets open after the first k packets of seq, a closeBracket with none
\* open leaving none open.
RECURSIVE NestingDepth(_, _)
NestingDepth(seq, k) ==
  IF k = 0 THEN 0
  ELSE IF seq[k].type = "openBracket" THEN NestingDepth(seq, k - 1) + 1
  ELSE IF seq[k].type = "closeBracket" /\ NestingDepth(seq, k - 1) > 0
  THEN NestingDepth(seq, k - 1) - 1
  ELSE NestingDepth(seq, k - 1)

\* The k-th packet of seq is a data IP at depth zero, or the closeBracket that
\* brings the depth back to zero after a data IP.
CompletesAt(seq, k) ==
  \/ seq[k].type = "data" /\ NestingDepth(seq, k - 1) = 0
  \/ /\ seq[k].type = "closeBracket"
     /\ NestingDepth(seq, k - 1) = 1
     /\ HasType(SubSeq(seq, 1, k - 1), "data")

CompleteStream(seq) == \E k \in 1..Len(seq) : CompletesAt(seq, k)

FullStream == <<"openBracket", "data", "data", "closeBracket">>

Accepts(validate, ip) == validate = "none" \/ ip.type = validate

\* The partition that valid reference p names holds a packet the callback accepts.
HoldsMatch(p, validate) ==
  \E i \in 1..Len(BufferOf(buffers, "s1", p)) :
    Accepts(validate, BufferOf(buffers, "s1", p)[i])

\* C7: for valid references a and b (a name for a non-addressable port, an
\* array for an addressable one) and any callback, has(a, b, callback) is true
\* iff the partition of a and the partition of b each hold a packet the
\* callback accepts.
C7_HasIsAnd ==
  [][\A params \in ValidPairParams :
       (lastCall'.op = "has" /\ lastCall'.params = params)
         => /\ lastCall'.status = "ok"
            /\ lastCall'.value.bool = (/\ HoldsMatch(params[1], lastCall'.validate)
                                       /\ HoldsMatch(params[2], lastCall'.validate))]_vars

-----------------------------------------------------------------------------
\* Claims about reads of two ports in one call (SpecMulti).

\* C5: a get whose arguments contain a string for an addressable port, or an
\* array for a non-addressable port, in any position, fails with the
\* addressability error and removes no packet from any buffer.
C5_MismatchConsumesNothing ==
  [][(/\ lastCall'.op = "get"
      /\ \E i \in 1..Len(lastCall'.params) : MismatchRef(lastCall'.params[i]))
       => /\ lastCall'.status = "AddressabilityMismatch"
          /\ buffers' = buffers]_vars

\* C19: getStream on two valid references returns one entry per reference,
\* each the list of packets read for that reference, whatever the buffers hold.
C19_OneEntryPerPort ==
  [][\A params \in ValidPairParams :
       (/\ lastCall'.op = "getStream"
        /\ lastCall'.params = params
        /\ lastCall'.status = "ok")
         => /\ Len(lastCall'.value.list) = 2
            /\ \A i \in 1..Len(lastCall'.value.list) :
                 ~lastCall'.value.list[i].undefined]_vars

-----------------------------------------------------------------------------
\* Further claims about reading one port at a time (Spec).

\* C20: a get that fails with the addressability error or for an unknown port
\* leaves the activation flags, the load and the result's resolved flag as
\* they were.
C20_FailedReadKeepsNodeState ==
  [][(/\ lastCall'.op = "get"
      /\ lastCall'.status \in {"AddressabilityMismatch", "UnknownPort"})
       => /\ activated' = activated
          /\ load' = load
          /\ \A s \in Scopes : result'[s].resolved = result[s].resolved]_vars

\* The packets the call of this step took from the partition of reference p.
Consumed(p) ==
  SubSeq(BufferOf(buffers, "s1", p), 1,
         Len(BufferOf(buffers, "s1", p)) - Len(BufferOf(buffers', "s1", p)))

\* The call of this step took packets from the front of p's partition only.
TookFromFront(p) ==
  LET buf == BufferOf(buffers, "s1", p)
      rest == BufferOf(buffers', "s1", p)
  IN  /\ Len(rest) <= Len(buf)
      /\ rest = SubSeq(buf, Len(buf) - Len(rest) + 1, Len(buf))

\* C18: getStream on a port that is not a forwarding port returns every data
\* IP it takes from the buffer: what it took is a front part of the buffer,
\* and each data IP of that part is in the returned list.
C18_StreamKeepsData ==
  [][\A p \in Refs :
       (Calls("getStream", p) /\ ~isForwardingInport(p.name))
         => /\ lastCall'.status = "ok"
            /\ TookFromFront(p)
            /\ \A i \in 1..Len(Consumed(p)) :
                 Consumed(p)[i].type = "data"
                   => \E j \in 1..Len(lastCall'.value.packets) :
                        lastCall'.value.packets[j] = Consumed(p)[i]]_vars

\* C18's case: a getStream on a plain port has returned a list with data in
\* it after dropping packets it had read (it read more than it returned).
C18_Witness ==
  /\ lastCall.op = "getStream"
  /\ Len(lastCall.params) = 1
  /\ ValidRef(lastCall.params[1])
  /\ ~isForwardingInport(lastCall.params[1].name)
  /\ lastCall.status = "ok"
  /\ HasType(lastCall.value.packets, "data")
  /\ lastCall.reads > Len(lastCall.value.packets) + 1

\* The bracket prefix of seq from its i-th packet on, read with depth frames
\* on the bracket context, meets a closeBracket with no frame to pop.
RECURSIVE UnderflowFrom(_, _, _)
UnderflowFrom(seq, i, depth) ==
  IF i > Len(seq) \/ seq[i].type = "data" THEN FALSE
  ELSE IF seq[i].type = "closeBracket"
  THEN depth = 0 \/ UnderflowFrom(seq, i + 1, depth - 1)
  ELSE UnderflowFrom(seq, i + 1, depth + 1)

\* What getStream has accumulated when it has read all of seq without
\* completing a stream: seq from its last openBracket at depth zero on.
WorkingList(seq) ==
  LET outer == {i \in 1..Len(seq) :
                  seq[i].type = "openBracket" /\ NestingDepth(seq, i - 1) = 0}
  IN  IF outer = {} THEN seq
      ELSE SubSeq(seq, CHOOSE i \in outer : \A j \in outer : j <= i, Len(seq))

\* This step is a getStream, a getData or a forwarding get on valid reference p.
LoopingRead(p) ==
  \/ Calls("getStream", p)
  \/ Calls("getData", p)
  \/ Calls("get", p) /\ isForwardingInport(p.name)

\* The call of this step on a partition of n packets asked the port at most
\* n + 1 times, and each time the port had a packet it gave up exactly one.
BoundedReads(p) ==
  LET n == Len(BufferOf(buffers, "s1", p))
  IN  /\ lastCall'.reads >= 1
      /\ lastCall'.reads <= n + 1
      /\ TookFromFront(p)
      /\ Len(Consumed(p)) = IF lastCall'.reads <= n THEN lastCall'.reads ELSE n

\* The call of this step read p's partition to its end and once more.
Exhausted(p) == lastCall'.reads = Len(BufferOf(buffers, "s1", p)) + 1

\* C16 as stated: getStream, getData and the forwarding get end after at most
\* one port read per buffered packet and one more; a getStream that ends
\* because the port gave no further packet raises no error.
C16_AnyPort ==
  [][\A p \in Refs :
       LoopingRead(p)
         => /\ BoundedReads(p)
            /\ (Calls("getStream", p) /\ Exhausted(p)) => lastCall'.status = "ok"]_vars

\* C16 amended: getStream, getData and the forwarding get end after at most
\* one port read per buffered packet and one more, each read taking one packet
\* while there is one.  A getStream that ends because the port gave no further
\* packet raises no error and returns what it accumulated (on a port that is
\* not a forwarding port: the buffer from its last openBracket at depth zero
\* on; on a forwarding port: nothing), unless the port is a forwarding port
\* and a closeBracket before the first data IP finds no bracket context to pop:
\* the error of the forwarding get then reaches the caller.
C16_BoundedReads ==
  [][\A p \in Refs :
       LoopingRead(p)
         => /\ BoundedReads(p)
            /\ (Calls("getStream", p) /\ Exhausted(p))
                 => IF isForwardingInport(p.name)
                    THEN IF UnderflowFrom(BufferOf(buffers, "s1", p), 1,
                                          Len(bracketContext[<<p.name, "s1", p.idx>>]))
                         THEN lastCall'.status = "TypeError"
                         ELSE /\ lastCall'.status = "ok"
                              /\ lastCall'.value = Packets(<<>>)
                    ELSE /\ lastCall'.status = "ok"
                         /\ lastCall'.value =
                              Packets(WorkingList(BufferOf(buffers, "s1", p)))]_vars

\* C16's case: a getStream on a plain port has read five packets and once
\* more, and returned the part of them it had accumulated after a reset.
C16_Witness ==
  /\ lastCall.op = "getStream"
  /\ Len(lastCall.params) = 1
  /\ ValidRef(lastCall.params[1])
  /\ ~isForwardingInport(lastCall.params[1].name)
  /\ lastCall.status = "ok"
  /\ lastCall.reads = 6
  /\ Len(lastCall.value.packets) \in 1..4

\* C17: when hasStream(p) is true, the getStream(p) that follows returns a
\* list that is not empty and ends in the packet that completes a stream: a
\* data IP at depth zero, or the closeBracket that brings the depth back to
\* zero with data inside.
C17_HasStreamThenGetStream ==
  [][\A p \in ValidRefs :
       (/\ Calls("getStream", p)
        /\ hasStream(M, "s1", <<p>>).status = "ok"
        /\ hasStream(M, "s1", <<p>>).value)
         => /\ lastCall'.status = "ok"
            /\ lastCall'.value.packets # <<>>
            /\ CompletesAt(lastCall'.value.packets,
                           Len(lastCall'.value.packets))]_vars

-----------------------------------------------------------------------------
\* Claims about the invocation and the forwarding port (SpecChain).

ReadOps == {"get", "getData", "getStream"}

\* C11: every get, getData and getStream leaves its invocation activated;
\* it invokes the node's activate, raising the load by one, only when the
\* invocation was not activated before it; in an ordered component it writes
\* resolved to false at that activation and at no other time, and in an
\* unordered component it never writes resolved.
C11_ActivatesOnce ==
  [][lastCall'.op \in ReadOps
       => /\ activated'[lastCall'.scope]
          /\ \A s \in Scopes \ {lastCall'.scope} : activated'[s] = activated[s]
          /\ load' = IF activated[lastCall'.scope] THEN load ELSE load + 1
          /\ \A s \in Scopes :
               result'[s].resolved =
                 IF s = lastCall'.scope /\ ordered /\ ~activated[s]
                 THEN "false" ELSE result[s].resolved]_vars

\* C11's case: in an ordered component whose logic has set resolved to true, a
\* later read of the same invocation has run, also one that found no packet.
C11_Witness ==
  /\ ordered
  /\ lastCall.op = "get"
  /\ lastCall.status = "ok"
  /\ lastCall.value = Absent
  /\ activated["s1"]
  /\ result["s1"].resolved = "true"
  /\ load = 1

\* Every frame in a result's __bracketClosingBefore has the openBracket that
\* made it and the closeBracket that popped it.
ClosedFramesWhole ==
  \A s \in Scopes :
    \A i \in 1..Len(result[s].bracketClosingBefore.frames) :
      LET f == heap[result[s].bracketClosingBefore.frames[i]]
      IN  f.ip.type = "openBracket" /\ f.closeIp.type = "closeBracket"

\* C13: a read of the forwarding port whose bracket prefix holds a closeBracket
\* that finds the bracket context empty fails with an error and gives no
\* packet, and it fails in no other case; no frame without an openBracket is
\* ever in __bracketClosingBefore, and a frame on the bracket context has not
\* been closed.
C13_UnderflowFails ==
  [][LoopingRead(Name("fwd"))
       => /\ IF UnderflowFrom(buffers[Fwd], 1, Len(bracketContext[Fwd]))
             THEN lastCall'.status = "TypeError" /\ lastCall'.value = Absent
             ELSE lastCall'.status = "ok"
          /\ ClosedFramesWhole'
          /\ \A i \in 1..Len(bracketContext'[Fwd]) :
               /\ heap'[bracketContext'[Fwd][i]].ip.type = "openBracket"
               /\ heap'[bracketContext'[Fwd][i]].closeIp = Absent]_vars

\* C13's case: a get of the forwarding port has failed at a closeBracket that
\* found the bracket context empty, after it had popped the one frame there was.
C13_Witness ==
  /\ lastCall.op = "get"
  /\ lastCall.params = <<Name("fwd")>>
  /\ lastCall.status = "TypeError"
  /\ bracketContext[Fwd] = <<>>
  /\ Len(result["s1"].bracketClosingBefore.frames) = 1

\* C14: when a get of the forwarding port has returned a data IP, the next
\* read of the forwarding port in the same invocation adds no frame to
\* __bracketClosingBefore.
C14_OnlyBeforeFirstData ==
  [][(/\ lastCall.op = "get"
      /\ lastCall.params = <<Name("fwd")>>
      /\ lastCall.status = "ok"
      /\ lastCall.value.type = "data"
      /\ LoopingRead(Name("fwd")))
       => result'["s1"].bracketClosingBefore.frames
            = result["s1"].bracketClosingBefore.frames]_vars

\* C15: a read of the forwarding port changes neither the frames that the
\* previous invocation's result holds in __bracketContext for that port nor
\* any field of those frames.
C15_SnapshotIndependent ==
  [][LoopingRead(Name("fwd"))
       => /\ earlier'["s1"].bracketContext["fwd"] = earlier["s1"].bracketContext["fwd"]
          /\ \A i \in 1..Len(earlier["s1"].bracketContext["fwd"].frames) :
               heap'[earlier["s1"].bracketContext["fwd"].frames[i]]
                 = heap[earlier["s1"].bracketContext["fwd"].frames[i]]]_vars

-----------------------------------------------------------------------------
\* Claims about invocations of different scopes (SpecScopes).

\* The packets of list are in seq, in the order of list.
RECURSIVE InOrderWithin(_, _)
InOrderWithin(list, seq) ==
  IF list = <<>> THEN TRUE
  ELSE IF seq = <<>> THEN FALSE
  ELSE IF Head(list) = Head(seq) THEN InOrderWithin(Tail(list), Tail(seq))
  ELSE InOrderWithin(list, Tail(seq))

\* The call of this step gave its caller only packets (for getData: payloads
\* of data IPs) of seq, in the order of seq.
GaveOnlyFrom(seq) ==
  IF lastCall'.status # "ok" THEN TRUE
  ELSE IF lastCall'.op = "get"
  THEN lastCall'.value = Absent \/ InOrderWithin(<<lastCall'.value>>, seq)
  ELSE IF lastCall'.op = "getStream"
  THEN InOrderWithin(lastCall'.value.packets, seq)
  ELSE \/ lastCall'.value.payload = NoData
       \/ InOrderWithin(<<IP("data", lastCall'.value.payload)>>, seq)

\* C12: a get, getData or getStream of the invocation with scope s on
\* reference p takes packets from the front of the partition (p, s) only and
\* gives its caller only packets it took, in their buffered order; every
\* other buffer partition, and the bracket contexts (stacks and frames), the
\* result and the activation flag of the other scope are as they were.
C12_ScopeIsolation ==
  [][lastCall'.op \in ReadOps
       => LET s == lastCall'.scope
              own == <<lastCall'.params[1].name, s, lastCall'.params[1].idx>>
              taken == Len(buffers[own]) - Len(buffers'[own])
          IN  /\ \A k \in Parts \ {own} : buffers'[k] = buffers[k]
              /\ taken >= 0
              /\ buffers'[own] = SubSeq(buffers[own], taken + 1, Len(buffers[own]))
              /\ GaveOnlyFrom(SubSeq(buffers[own], 1, taken))
              /\ \A k \in Parts :
                   k[2] # s
                     => /\ bracketContext'[k] = bracketContext[k]
                        /\ \A i \in 1..Len(bracketContext[k]) :
                             heap'[bracketContext[k][i]] = heap[bracketContext[k][i]]
              /\ \A t \in Scopes \ {s} :
                   result'[t] = result[t] /\ activated'[t] = activated[t]]_vars

\* C12's case: both invocations have read the forwarding port, each has a
\* bracket context frame of its own, and the one with scope "s2" has just
\* been given a data IP while the other's partition still holds packets.
C12_Witness ==
  /\ lastCall.op \in ReadOps
  /\ lastCall.scope = "s2"
  /\ lastCall.params = <<Name("fwd")>>
  /\ lastCall.status = "ok"
  /\ activated["s1"]
  /\ bracketContext[<<"fwd", "s1", NoIdx>>] # <<>>
  /\ bracketContext[<<"fwd", "s2", NoIdx>>] # <<>>
  /\ bracketContext[<<"fwd", "s1", NoIdx>>] # bracketContext[<<"fwd", "s2", NoIdx>>]
  /\ result["s2"].bracketContext["fwd"].frames = bracketContext[<<"fwd", "s2", NoIdx>>]

====
